---- MODULE Spec2Model ----
(***************************************************************************)
(* Model of onetime (src/onetime.go): one-time file sharing.               *)
(*                                                                         *)
(* The persisted token store (TOKEN_DB) is a JSON file that every          *)
(* operation loads whole, changes in memory and writes back whole.  The    *)
(* HTTP handlers Show (GET /<token>) and Distribute (GET /d/<token>) and   *)
(* the command-line operations add, ls, del and purge are modelled as      *)
(* processes that walk through the statements of the source.  The clock   *)
(* and the file system are the environment: the clock is a variable, and   *)
(* what os.Stat or http.ServeFile finds at a path (nothing, a regular      *)
(* file, a directory, a file that may not be read) is an input of the      *)
(* step that looks at the path, since the files may change at any time.    *)
(*                                                                         *)
(* Time is the wall clock in seconds since the Unix epoch.  The clock      *)
(* advances in steps of TickLen, half the validity window, so that a       *)
(* request can fall before, on and after the end of the window.            *)
(***************************************************************************)
EXTENDS Integers, Sequences, FiniteSets, TLC

\* ---------------------------------------------------------------- bounds
MaxTick == 3        \* the clock advances at most MaxTick times
MaxArgs == 2        \* at most MaxArgs tokens on a "onetime del" command line
MaxSz   == 3        \* GenerateOnetime is run for lengths up to MaxSz

\* ------------------------------------------------------ program constants
TOKEN_VAL == 4 * 60 * 60            \* token validity once clicked, seconds

\* ------------------------------------------------------------ environment
SecondsPerYear == 365 * 24 * 60 * 60
TickLen        == TOKEN_VAL \div 2
Clock0         == 43 * SecondsPerYear + 200 * 24 * 60 * 60  \* mid 2013

Ids      == {"a", "b"}                   \* token strings the generator returns
Cwd      == <<"/", "home">>              \* working directory of the CLI
FileArgs == { <<"f">>, <<"/", "g">> }    \* path arguments given to add
Kinds    == {"none", "file", "dir", "noread"}
Workers  == {"w1", "w2"}
SeqWorkers == {"w1"}

\* filepath.Abs: a path that is not rooted is joined to the working directory
Abs(p) == IF p[1] = "/" THEN p ELSE Cwd \o p
\* path.Base: the last element of the path
Base(p) == p[Len(p)]

\* ------------------------------------------------------------ time.Time
\* A time.Time is a wall clock reading and, when it comes from time.Now(),
\* a monotonic reading (kept as a flag).
Unix0   == [wall |-> 0, mono |-> FALSE]            \* time.Unix(0,0)
Year(t) == 1970 + (t.wall \div SecondsPerYear)
\* t.Sub(u): one operand always comes out of the JSON store and has no
\* monotonic reading, so the difference is the wall clock difference
Sub(t, u) == t.wall - u.wall
AddDur(t, d) == [wall |-> t.wall + d, mono |-> t.mono]

\* isotime: "no" for a time in 1970 or before, else the formatted time
isotime(t) ==
    IF Year(t) <= 1970 THEN [no |-> TRUE, sec |-> 0]
    ELSE [no |-> FALSE, sec |-> t.wall]
IsNo(s) == s.no

Token(path, created, activated) ==
    [Path |-> path, Created |-> created, Activated |-> activated]

\* ------------------------------------------------------------ token store
EmptyMap == [k \in {} |-> 0]

\* the Created and Activated members are written under each other's name
Marshal_swapped(m) ==
    [k \in DOMAIN m |->
        [Path |-> m[k].Path,
         Created |-> m[k].Activated.wall,
         Activated |-> m[k].Created.wall]]

\* json.Marshal of an LTokens: every time is written as its RFC 3339 wall
\* clock instant, the monotonic reading is dropped
Marshal(m) ==
    [k \in DOMAIN m |->
        [Path |-> m[k].Path,
         Created |-> m[k].Created.wall,
         Activated |-> m[k].Activated.wall]]

\* json.Unmarshal into an empty LTokens
Unmarshal(js) ==
    [k \in DOMAIN js |->
        Token(js[k].Path,
              [wall |-> js[k].Created, mono |-> FALSE],
              [wall |-> js[k].Activated, mono |-> FALSE])]

\* The TOKEN_DB file: absent, or present with bytes that are valid JSON or
\* not; js is the JSON document, or what is left of it in a damaged file
NoFile == [exists |-> FALSE, valid |-> FALSE, js |-> EmptyMap]
Torn(js) == [exists |-> TRUE, valid |-> FALSE, js |-> js]

\* LTokens.Save: the file holds the marshalled map
SaveFile(m) == [exists |-> TRUE, valid |-> TRUE, js |-> Marshal(m)]

\* the bytes of the file are decoded whether or not they are valid JSON
LoadFile_anybytes(f) == IF f.exists THEN Unmarshal(f.js) ELSE EmptyMap

\* LTokens.Load: the errors of ReadFile and Unmarshal are dropped, so a
\* file that is missing or is not valid JSON leaves the map empty
LoadFile(f) == IF f.exists /\ f.valid THEN Unmarshal(f.js) ELSE EmptyMap

\* ltok[k] = v
MapSet(m, k, v) == [x \in DOMAIN m \cup {k} |-> IF x = k THEN v ELSE m[x]]
\* LTokens.Del: delete(ltok, ott)
MapDel(m, k) == [x \in DOMAIN m \ {k} |-> m[x]]

VARIABLES
    now,        \* wall clock
    file,       \* the TOKEN_DB file
    pc,         \* position of each process
    req,        \* the request or command each process runs
    ltok,       \* the LTokens of each process
    tok,        \* the Token looked up by each process
    resp,       \* what each process has answered so far
    first_act   \* history: wall time of the first activation of each token

vars == <<now, file, pc, req, ltok, tok, resp, first_act>>

NoTok  == Token(<<>>, Unix0, Unix0)
NoReq  == [op |-> "none", id |-> "", args |-> <<>>, path |-> <<>>]
NoResp ==
    [status |-> 0, disp |-> "", body |-> "none", log |-> <<>>, out |-> {},
     kind |-> "unseen"]

\* http.NotFound
NotFound(tag) ==
    [status |-> 404, disp |-> "", body |-> "404 page not found",
     log |-> <<tag>>, out |-> {}, kind |-> "unseen"]

Init ==
    /\ now = Clock0
    /\ file = NoFile
    /\ pc = [w \in Workers |-> "idle"]
    /\ req = [w \in Workers |-> NoReq]
    /\ ltok = [w \in Workers |-> EmptyMap]
    /\ tok = [w \in Workers |-> NoTok]
    /\ resp = [w \in Workers |-> NoResp]
    /\ first_act = [k \in Ids |-> 0]

\* ------------------------------------------------------------ environment
Tick ==
    /\ now < Clock0 + MaxTick * TickLen
    /\ now' = now + TickLen
    /\ UNCHANGED <<file, pc, req, ltok, tok, resp, first_act>>

\* os.Stat of a path of the given kind: fails for a path that does not
\* exist; a regular file the process may not read is still stat'ed
Stat(kind) == [err |-> kind = "none", dir |-> kind = "dir"]

NoIso == [no |-> TRUE, sec |-> 0]
Row(k, name, created, activated, validity) ==
    [token |-> k, name |-> name, created |-> created,
     activated |-> activated, validity |-> validity]

Now == [wall |-> now, mono |-> TRUE]                \* time.Now()

\* history: the first activation time of the record persisted under k,
\* 0 while there is no such record or it was never activated
FirstAct(f, k) ==
    IF ~(f.exists /\ f.valid) THEN 0
    ELSE IF k \notin DOMAIN f.js THEN 0
    ELSE IF f.js[k].Activated = 0 THEN 0
    ELSE IF first_act[k] # 0 THEN first_act[k]
    ELSE f.js[k].Activated

Finish(w, r) ==
    /\ pc' = [pc EXCEPT ![w] = "idle"]
    /\ resp' = [resp EXCEPT ![w] = r]
    /\ ltok' = [ltok EXCEPT ![w] = EmptyMap]
    /\ tok' = [tok EXCEPT ![w] = NoTok]

Write(f) ==
    /\ file' = f
    /\ first_act' = [k \in Ids |-> FirstAct(f, k)]

\* ------------------------------------------------------ Show, GET /<token>
ShowPage(id, t, kind) ==
    [status |-> 200, disp |-> "", body |-> "page", log |-> <<"DISP">>,
     kind |-> kind,
     out |-> { Row(id, Base(t.Path), NoIso, NoIso,
                   IF Year(t.Activated) > 1970
                   THEN isotime(AddDur(t.Activated, TOKEN_VAL))
                   ELSE NoIso) }]

\* the result of os.Stat is not tested
ShowResponse_nostat(m, id, kind) ==
    IF id \notin DOMAIN m THEN NotFound("404")
    ELSE ShowPage(id, m[id], kind)

\* lines 229-299, kind being what os.Stat finds at the token's path
ShowResponse(m, id, kind) ==
    IF id \notin DOMAIN m THEN NotFound("404")
    ELSE IF Stat(kind).err THEN [NotFound("NOFILE") EXCEPT !.kind = kind]
    ELSE ShowPage(id, m[id], kind)

Show(w, id) ==
    /\ pc[w] = "idle"
    /\ req' = [req EXCEPT ![w] = [NoReq EXCEPT !.op = "show", !.id = id]]
    /\ IF id \notin DOMAIN LoadFile(file)
       THEN Finish(w, ShowResponse(LoadFile(file), id, "unseen"))
       ELSE \E kind \in Kinds :
                Finish(w, ShowResponse(LoadFile(file), id, kind))
    /\ UNCHANGED <<now, file, first_act>>

\* ------------------------------------------- Distribute, GET /d/<token>
\* lines 304-313: load the store, look the token up
DistLoad(w, id) ==
    /\ pc[w] = "idle"
    /\ req' = [req EXCEPT ![w] = [NoReq EXCEPT !.op = "dist", !.id = id]]
    /\ LET m == LoadFile(file) IN
        IF id \notin DOMAIN m
        THEN Finish(w, NotFound("404"))
        ELSE /\ pc' = [pc EXCEPT ![w] = "d_check"]
             /\ ltok' = [ltok EXCEPT ![w] = m]
             /\ tok' = [tok EXCEPT ![w] = m[id]]
             /\ resp' = [resp EXCEPT ![w] = NoResp]
    /\ UNCHANGED <<now, file, first_act>>

\* the operands of Sub exchanged
DistExpired_swapped(t, n) ==
    Year(t.Activated) > 1970 /\ Sub(t.Activated, n) > TOKEN_VAL

\* lines 314-320: refuse an activated token older than TOKEN_VAL
DistExpired(t, n) ==
    Year(t.Activated) > 1970 /\ Sub(n, t.Activated) > TOKEN_VAL

\* an expired token is deleted from the store when it is refused
DistCheck_cleanup(w) ==
    /\ pc[w] = "d_check"
    /\ IF DistExpired(tok[w], Now)
       THEN /\ Finish(w, NotFound("EXPIRED"))
            /\ Write(SaveFile(MapDel(ltok[w], req[w].id)))
       ELSE /\ pc' = [pc EXCEPT ![w] = "d_stamp"]
            /\ UNCHANGED <<ltok, tok, resp, file, first_act>>
    /\ UNCHANGED <<now, req>>

DistCheck(w) ==
    /\ pc[w] = "d_check"
    /\ IF DistExpired(tok[w], Now)
       THEN Finish(w, NotFound("EXPIRED"))
       ELSE /\ pc' = [pc EXCEPT ![w] = "d_stamp"]
            /\ UNCHANGED <<ltok, tok, resp>>
    /\ UNCHANGED <<now, file, req, first_act>>

\* line 321: the record written back for the requested token
DistStamp(t, n) == Token(t.Path, t.Created, n)

\* the token is stamped in memory and the store is not saved before serving
DistActivate_unsaved(w) ==
    /\ pc[w] = "d_stamp"
    /\ ltok' = [ltok EXCEPT ![w] =
                    MapSet(ltok[w], req[w].id, DistStamp(tok[w], Now))]
    /\ pc' = [pc EXCEPT ![w] = "d_serve"]
    /\ UNCHANGED <<now, file, first_act, req, tok, resp>>

\* the store is loaded again just before the token is stamped and saved
DistActivate_reload(w) ==
    /\ pc[w] = "d_stamp"
    /\ LET m == MapSet(LoadFile(file), req[w].id, DistStamp(tok[w], Now)) IN
        /\ ltok' = [ltok EXCEPT ![w] = m]
        /\ Write(SaveFile(m))
    /\ pc' = [pc EXCEPT ![w] = "d_serve"]
    /\ UNCHANGED <<now, req, tok, resp>>

\* lines 321-322: stamp the token and save the store
DistActivate(w) ==
    /\ pc[w] = "d_stamp"
    /\ LET m == MapSet(ltok[w], req[w].id, DistStamp(tok[w], Now)) IN
        /\ ltok' = [ltok EXCEPT ![w] = m]
        /\ Write(SaveFile(m))
    /\ pc' = [pc EXCEPT ![w] = "d_serve"]
    /\ UNCHANGED <<now, req, tok, resp>>

\* a save error ends the request with an error instead of being dropped
DistActivateFail_checked(w) ==
    /\ pc[w] = "d_stamp"
    /\ Finish(w, [NoResp EXCEPT !.status = 500, !.log = <<"SAVE">>])
    /\ UNCHANGED <<now, file, first_act, req>>

\* lines 321-322 when ioutil.WriteFile fails (line 117): either the file
\* could not be opened and is left as it was, or it was truncated and the
\* write stopped part way; Save drops the error and Distribute goes on
DistActivateFail(w) ==
    /\ pc[w] = "d_stamp"
    /\ LET m == MapSet(ltok[w], req[w].id, DistStamp(tok[w], Now)) IN
        /\ ltok' = [ltok EXCEPT ![w] = m]
        /\ \E f \in {file, Torn(Marshal(m))} : Write(f)
    /\ pc' = [pc EXCEPT ![w] = "d_serve"]
    /\ UNCHANGED <<now, req, tok, resp>>

\* http.ServeFile: the status it answers for each kind of path; a file that
\* cannot be opened for lack of permission is answered 403 by current
\* net/http and 404 by the net/http of 2013
ServeStatus(kind) ==
    CASE kind = "file"   -> {200}
      [] kind = "dir"    -> {200}
      [] kind = "none"   -> {404}
      [] kind = "noread" -> {403, 404}

ServeBody(kind, st) ==
    CASE kind = "file" -> "file"
      [] kind = "dir"  -> "dirlist"
      [] OTHER         -> IF st = 404 THEN "404 page not found"
                          ELSE "403 Forbidden"

\* lines 323-328: Content-disposition header, then http.ServeFile
DistServe(w) ==
    /\ pc[w] = "d_serve"
    /\ \E kind \in Kinds : \E st \in ServeStatus(kind) :
        Finish(w, [status |-> st,
                   disp |-> Base(tok[w].Path),
                   body |-> ServeBody(kind, st),
                   log |-> <<"SEND", "DONE">>,
                   out |-> {},
                   kind |-> kind])
    /\ UNCHANGED <<now, file, req, first_act>>

\* --------------------------------------------------- command line, main
\* lines 471, 480, 487: every mutating command first loads the store
CmdLoad(w, r) ==
    /\ pc[w] = "idle"
    /\ req' = [req EXCEPT ![w] = r]
    /\ pc' = [pc EXCEPT ![w] = "c_run"]
    /\ ltok' = [ltok EXCEPT ![w] = LoadFile(file)]
    /\ resp' = [resp EXCEPT ![w] = NoResp]
    /\ UNCHANGED <<now, file, tok, first_act>>

Printed(text, rows) ==
    [status |-> 0, disp |-> "", body |-> text, log |-> <<>>, out |-> rows,
     kind |-> "unseen"]

\* LTokens.Add: the map after Add(filename) when os.Stat finds a path of the
\* given kind, the generator returns ott and the clock reads n
LTokensAdd(m, filename, kind, ott, n) ==
    LET ffilename == Abs(filename) IN
    IF Stat(kind).err THEN m
    ELSE IF Stat(kind).dir THEN m
    ELSE MapSet(m, ott, Token(ffilename, n, Unix0))

\* what LTokens.Add prints
AddPrinted(filename, kind, ott) ==
    LET ffilename == Abs(filename) IN
    IF Stat(kind).err
    THEN [Printed("cannot find file", {}) EXCEPT !.kind = kind]
    ELSE IF Stat(kind).dir
    THEN [Printed("cannot send directories", {}) EXCEPT !.kind = kind]
    ELSE [Printed("A file is ready for download",
                  { Row(ott, Base(ffilename), NoIso, NoIso, NoIso) })
          EXCEPT !.kind = kind]

\* lines 472-473: ltok.Add(os.Args[2]); ltok.Save(cnf.TOKEN_DB)
CmdAdd(w) ==
    /\ pc[w] = "c_run"
    /\ req[w].op = "add"
    /\ \E kind \in Kinds, ott \in Ids :
        /\ Write(SaveFile(LTokensAdd(ltok[w], req[w].path, kind, ott, Now)))
        /\ Finish(w, AddPrinted(req[w].path, kind, ott))
    /\ UNCHANGED <<now, req>>

\* only the first token of the command line is deleted
DelArgs_first(m, args) ==
    IF args = <<>> THEN m ELSE MapDel(m, Head(args))

\* lines 481-483: ltok.Del for every token of the command line, in order
RECURSIVE DelArgs(_, _)
DelArgs(m, args) ==
    IF args = <<>> THEN m
    ELSE DelArgs(MapDel(m, Head(args)), Tail(args))

\* LTokens.Del prints every token it is asked to remove, present or not
Removing(ks) ==
    Printed("removing token", { Row(k, "", NoIso, NoIso, NoIso) : k \in ks })

\* lines 480-484
CmdDel(w) ==
    /\ pc[w] = "c_run"
    /\ req[w].op = "del"
    /\ Write(SaveFile(DelArgs(ltok[w], req[w].args)))
    /\ Finish(w, Removing({ req[w].args[i] : i \in 1..Len(req[w].args) }))
    /\ UNCHANGED <<now, req>>

\* the comparison with TOKEN_VAL is not strict
PurgeExpired_nonstrict(t, n) ==
    ~IsNo(isotime(t.Activated)) /\ Sub(n, t.Activated) >= TOKEN_VAL

\* the sentinel test looks at the creation time of the record
PurgeExpired_created(t, n) ==
    ~IsNo(isotime(t.Created)) /\ Sub(n, t.Activated) > TOKEN_VAL

\* LTokens.Purge at clock reading n: the test that removes a record
PurgeExpired(t, n) ==
    ~IsNo(isotime(t.Activated)) /\ Sub(n, t.Activated) > TOKEN_VAL

\* the loop stops after the first record it deletes
LTokensPurge_one(m, n) ==
    LET expired == { x \in DOMAIN m : PurgeExpired(m[x], n) } IN
    IF expired = {} THEN m
    ELSE MapDel(m, CHOOSE x \in expired : TRUE)

\* LTokens.Purge: ranges over the map and deletes the expired records
LTokensPurge(m, n) ==
    [k \in { x \in DOMAIN m : ~PurgeExpired(m[x], n) } |-> m[k]]

\* lines 487-489
CmdPurge(w) ==
    /\ pc[w] = "c_run"
    /\ req[w].op = "purge"
    /\ Write(SaveFile(LTokensPurge(ltok[w], Now)))
    /\ Finish(w, Removing({ k \in DOMAIN ltok[w] :
                                PurgeExpired(ltok[w][k], Now) }))
    /\ UNCHANGED <<now, req>>

\* LTokens.List
ListRows(m) ==
    { Row(k, m[k].Path, isotime(m[k].Created), isotime(m[k].Activated),
          isotime(AddDur(m[k].Activated, TOKEN_VAL))) : k \in DOMAIN m }

\* lines 476-477
CmdList(w) ==
    /\ pc[w] = "idle"
    /\ req' = [req EXCEPT ![w] = [NoReq EXCEPT !.op = "ls"]]
    /\ Finish(w, Printed("list", ListRows(LoadFile(file))))
    /\ UNCHANGED <<now, file, first_act>>

ArgSeqs == UNION { [1..n -> Ids] : n \in 0..MaxArgs }
Commands ==
    { [NoReq EXCEPT !.op = "add", !.path = a] : a \in FileArgs }
    \cup { [NoReq EXCEPT !.op = "del", !.args = s] : s \in ArgSeqs }
    \cup { [NoReq EXCEPT !.op = "purge"] }

\* ------------------------------------------------------------ behaviours
Step(w) ==
    \/ \E id \in Ids : Show(w, id)
    \/ \E id \in Ids : DistLoad(w, id)
    \/ DistCheck(w)
    \/ DistActivate(w)
    \/ DistServe(w)
    \/ \E r \in Commands : CmdLoad(w, r)
    \/ CmdAdd(w)
    \/ CmdDel(w)
    \/ CmdPurge(w)
    \/ CmdList(w)

\* one request or command at a time
Next == Tick \/ \E w \in SeqWorkers : Step(w)

Spec == Init /\ [][Next]_vars

\* ------------------------------------------------------ GenerateOnetime
\* line 85: the character set used to create one-time tokens
letterSet ==
    <<"1", "2", "3", "4", "5", "6", "7", "8", "9", "0">>
    \o <<"a", "b", "c", "d", "e", "f", "g", "h", "i", "j", "k", "l", "m",
         "n", "o", "p", "q", "r", "s", "t", "u", "v", "w", "x", "y", "z">>
    \o <<"1", "2", "3", "4", "5", "6", "7", "8", "9", "0">>

Bytes == 0..255
SampleBytes == {0, 9, 10, 25, 26, 255}
\* the random bytes read from rand.Reader: every single byte, and longer
\* reads over a few byte values
Picks ==
    [1..1 -> Bytes] \cup UNION { [1..n -> SampleBytes] : n \in 0..MaxSz }

\* the byte is reduced modulo the number of distinct characters
GenerateOnetime_mod36(pick) ==
    [i \in 1..Len(pick) |-> letterSet[(pick[i] % 36) + 1]]

\* lines 96-101: one character of letterSet for every random byte
GenerateOnetime(pick) ==
    [i \in 1..Len(pick) |-> letterSet[(pick[i] % Len(letterSet)) + 1]]

\* lines 90-91: GenerateOnetime(sz) reads sz random bytes
GenPick(w, pick) ==
    /\ pc[w] = "idle"
    /\ req' = [req EXCEPT ![w] = [NoReq EXCEPT !.op = "gen", !.args = pick]]
    /\ pc' = [pc EXCEPT ![w] = "g_run"]
    /\ resp' = [resp EXCEPT ![w] = NoResp]
    /\ UNCHANGED <<now, file, ltok, tok, first_act>>

\* lines 96-101: and returns the token made of them
Generate(w) ==
    /\ pc[w] = "g_run"
    /\ Finish(w, Printed("token",
                  { Row(GenerateOnetime(req[w].args), "", NoIso, NoIso, NoIso) }))
    /\ UNCHANGED <<now, file, req, first_act>>

NextGen ==
    \E w \in SeqWorkers :
        \/ \E pick \in Picks : GenPick(w, pick)
        \/ Generate(w)

\* the generator alone, run on every input of Picks
SpecGen == Init /\ [][NextGen]_vars

\* ------------------------------------------------------------ faults
\* the store file is damaged or removed from outside the program
Damage ==
    /\ file.exists
    /\ \E f \in {NoFile, Torn(file.js)} : f # file /\ Write(f)
    /\ UNCHANGED <<now, pc, req, ltok, tok, resp>>

\* one request or command at a time, with a store file that may be damaged
\* and saves that may fail
NextFault ==
    \/ Next
    \/ Damage
    \/ \E w \in SeqWorkers : DistActivateFail(w)

SpecFault == Init /\ [][NextFault]_vars

\* -------------------------------------------------------- concurrency
\* net/http runs every request in a goroutine of its own and the command
\* line runs in a process of its own; nothing in the source takes a lock.

\* ioutil.WriteFile (line 117) first opens the file with O_TRUNC and then
\* writes the bytes.  Lines 321-322, first half: the token is stamped and
\* the store file is opened, which empties it
DistSaveOpen(w) ==
    /\ pc[w] = "d_stamp"
    /\ ltok' = [ltok EXCEPT ![w] =
                    MapSet(ltok[w], req[w].id, DistStamp(tok[w], Now))]
    /\ Write(Torn(EmptyMap))
    /\ pc' = [pc EXCEPT ![w] = "d_write"]
    /\ UNCHANGED <<now, req, tok, resp>>

\* line 322, second half: the marshalled map is written
DistSaveWrite(w) ==
    /\ pc[w] = "d_write"
    /\ Write(SaveFile(ltok[w]))
    /\ pc' = [pc EXCEPT ![w] = "d_serve"]
    /\ UNCHANGED <<now, req, ltok, tok, resp>>

\* one GET /d/<token> request
Download(w) ==
    \/ \E id \in Ids : DistLoad(w, id)
    \/ DistCheck(w)
    \/ DistActivate(w)
    \/ DistServe(w)

\* one mutating command line
Command(w) ==
    \/ \E r \in Commands : CmdLoad(w, r)
    \/ CmdAdd(w)
    \/ CmdDel(w)
    \/ CmdPurge(w)

\* the store the server is started on: "onetime add f" was run at Clock0
\* and printed token a
ServedStore ==
    LTokensAdd(EmptyMap, <<"f">>, "file", "a", [wall |-> Clock0, mono |-> TRUE])

InitRace ==
    /\ now = Clock0
    /\ file = SaveFile(ServedStore)
    /\ pc = [w \in Workers |-> "idle"]
    /\ req = [w \in Workers |-> NoReq]
    /\ ltok = [w \in Workers |-> EmptyMap]
    /\ tok = [w \in Workers |-> NoTok]
    /\ resp = [w \in Workers |-> NoResp]
    /\ first_act = [k \in Ids |-> 0]

\* the server alone: download requests served concurrently, each save
\* either unobserved (DistActivate) or in its two halves
NextRace ==
    \/ Tick
    \/ \E w \in Workers : Download(w)
    \/ \E w \in Workers : DistSaveOpen(w)
    \/ \E w \in Workers : DistSaveWrite(w)

SpecRace == InitRace /\ [][NextRace]_vars

\* download requests and, in another process, command lines, interleaved
\* within one reading of the clock
NextConc ==
    \/ \E w \in Workers : Download(w)
    \/ Command("w2")

SpecConc == Init /\ [][NextConc]_vars

\* ------------------------------------------------------------ properties
Store      == LoadFile(file)                 \* the persisted mapping
StoreNext  == LoadFile(file')
IsSet(t)   == Year(t) > 1970                 \* not the unset sentinel
Observable(r) == [status |-> r.status, disp |-> r.disp, body |-> r.body]
Args(w)    == { req[w].args[i] : i \in 1..Len(req[w].args) }

\* C1: once the persisted activated_at of a token holds a real timestamp,
\* a download that writes the store leaves the record of every activated
\* token exactly as it was.
C1_SingleActivation ==
    [][\A w \in Workers :
        DistActivate(w) =>
            \A k \in DOMAIN Store :
                IsSet(Store[k].Activated) =>
                    k \in DOMAIN StoreNext /\ StoreNext[k] = Store[k]]_vars

\* C2: for a token first activated at T whose record stays in the store, a
\* download whose expiry check runs before T + TOKEN_VAL goes on to serve,
\* and one whose check runs after T + TOKEN_VAL is refused with not-found.
C2_ExpiryBoundary ==
    [][\A w \in Workers :
        (DistCheck(w) /\ first_act[req[w].id] # 0) =>
            /\ now < first_act[req[w].id] + TOKEN_VAL
                   => pc'[w] = "d_stamp"
            /\ now > first_act[req[w].id] + TOKEN_VAL
                   => /\ pc'[w] = "idle"
                      /\ Observable(resp'[w]) = Observable(NotFound("EXPIRED"))
      ]_vars

\* C3: a download of an id absent from the store, or of a token that is
\* expired (activated_at set and now - activated_at > TOKEN_VAL), ends at
\* once with not-found, without a Content-disposition header or file
\* content, and leaves the store file as it was.
C3_RefusedDownload ==
    [][\A w \in Workers :
        /\ \A id \in Ids :
            (DistLoad(w, id) /\ id \notin DOMAIN Store) =>
                /\ pc'[w] = "idle"
                /\ Observable(resp'[w]) = Observable(NotFound("404"))
                /\ file' = file
        /\ \A id \in Ids : DistLoad(w, id) => file' = file
        /\ (/\ DistCheck(w)
            /\ req[w].id \in DOMAIN Store
            /\ IsSet(Store[req[w].id].Activated)
            /\ now - Store[req[w].id].Activated.wall > TOKEN_VAL) =>
                /\ pc'[w] = "idle"
                /\ Observable(resp'[w]) = Observable(NotFound("EXPIRED"))
                /\ file' = file
      ]_vars

C3_Witness ==
    \E w \in Workers :
        /\ pc[w] = "idle"
        /\ req[w].op = "dist"
        /\ resp[w].log = <<"EXPIRED">>
        /\ req[w].id \in DOMAIN Store

\* C4: when a download that found its token Fresh reaches the point where
\* it streams the file, nothing has been sent yet and the store file already
\* holds the token with activated_at set to the time the request stamped.
C4_ActivationBeforeStreaming ==
    \A w \in Workers :
        (pc[w] = "d_serve" /\ ~IsSet(tok[w].Activated)) =>
            /\ resp[w] = NoResp
            /\ req[w].id \in DOMAIN Store
            /\ IsSet(Store[req[w].id].Activated)
            /\ Store[req[w].id].Activated.wall = ltok[w][req[w].id].Activated.wall
            /\ Store[req[w].id].Activated.wall <= now

C4_Witness ==
    \E w \in Workers :
        /\ pc[w] = "d_serve"
        /\ ~IsSet(tok[w].Activated)
        /\ req[w].id \in DOMAIN Store

\* C5: a landing-page request leaves the store file as it was, whatever the
\* state of the token and of the backing file, and it is answered not-found
\* when the token is absent or os.Stat fails on the backing file.
C5_ShowReadsOnly ==
    [][\A w \in Workers, id \in Ids :
        Show(w, id) =>
            /\ file' = file
            /\ pc'[w] = "idle"
            /\ (id \notin DOMAIN Store \/ resp'[w].kind = "none")
                   => Observable(resp'[w]) = Observable(NotFound("404"))
      ]_vars

C5_Witness ==
    \E w \in Workers :
        /\ pc[w] = "idle"
        /\ req[w].op = "show"
        /\ req[w].id \in DOMAIN Store
        /\ ~IsSet(Store[req[w].id].Activated)
        /\ resp[w].kind = "none"
        /\ resp[w].status = 404

\* C6: a request that ends for an unknown token, for a token whose backing
\* file is gone, or for an expired token gives the same observable response
\* (status, headers, body) as http.NotFound, on both routes.
C6_NotFoundEquivalence ==
    [][\A w \in Workers :
        /\ (DistServe(w) /\ resp'[w].kind = "none")
               => Observable(resp'[w]) = Observable(NotFound("404"))
        /\ \A id \in Ids :
            (DistLoad(w, id) /\ id \notin DOMAIN Store)
               => Observable(resp'[w]) = Observable(NotFound("404"))
        /\ (DistCheck(w) /\ pc'[w] = "idle")
               => Observable(resp'[w]) = Observable(NotFound("404"))
        /\ \A id \in Ids :
            (/\ Show(w, id)
             /\ \/ id \notin DOMAIN Store
                \/ resp'[w].kind = "none"
                \/ /\ IsSet(Store[id].Activated)
                   /\ now - Store[id].Activated.wall > TOKEN_VAL)
               => Observable(resp'[w]) = Observable(NotFound("404"))
      ]_vars

\* C7: after a purge run at time now the store holds no record with
\* activated_at set and now - activated_at > TOKEN_VAL, and every record
\* that was never activated or was still inside its window is present
\* with the same path, created_at and activated_at.
C7_PurgeCorrect ==
    [][\A w \in Workers :
        CmdPurge(w) =>
            /\ \A k \in DOMAIN StoreNext :
                ~(/\ IsSet(StoreNext[k].Activated)
                  /\ now - StoreNext[k].Activated.wall > TOKEN_VAL)
            /\ \A k \in DOMAIN Store :
                (\/ ~IsSet(Store[k].Activated)
                 \/ now - Store[k].Activated.wall <= TOKEN_VAL)
                    => k \in DOMAIN StoreNext /\ StoreNext[k] = Store[k]
      ]_vars

C7_Witness ==
    \E w \in Workers :
        /\ pc[w] = "idle"
        /\ req[w].op = "purge"
        /\ resp[w].out # {}
        /\ \E k \in DOMAIN Store :
              IsSet(Store[k].Activated) /\ now - Store[k].Activated.wall = TOKEN_VAL

\* C8: when the path given to add is a directory, does not exist or is a
\* file that may not be read, the mapping saved is the mapping loaded.
C8_AddValidation ==
    [][\A w \in Workers :
        (CmdAdd(w) /\ resp'[w].kind \in {"dir", "none", "noread"}) =>
            file'.js = Marshal(ltok[w])
      ]_vars

\* C9: add on a regular file, whatever id the generator returns, keeps
\* every record of the store unchanged and adds exactly one record, with the
\* absolute path, created_at = now and activated_at unset.
C9_AddInsertsOne ==
    [][\A w \in Workers :
        (CmdAdd(w) /\ resp'[w].kind = "file") =>
            /\ \A k \in DOMAIN Store :
                  k \in DOMAIN StoreNext /\ StoreNext[k] = Store[k]
            /\ Cardinality(DOMAIN StoreNext) = Cardinality(DOMAIN Store) + 1
            /\ \A k \in DOMAIN StoreNext \ DOMAIN Store :
                  /\ StoreNext[k].Path = Abs(req[w].path)
                  /\ StoreNext[k].Created.wall = now
                  /\ ~IsSet(StoreNext[k].Activated)
      ]_vars

\* C10: del removes the records of the tokens named on the command line
\* that are present, ignores those that are absent, and leaves every other
\* record unchanged; the result depends only on the set of tokens named,
\* so naming a token twice, or deleting it again, changes nothing more.
C10_Remove ==
    [][\A w \in Workers :
        CmdDel(w) =>
            /\ file'.exists
            /\ DOMAIN StoreNext = DOMAIN Store \ Args(w)
            /\ \A k \in DOMAIN StoreNext : StoreNext[k] = Store[k]
      ]_vars

C10_Witness ==
    \E w \in Workers :
        /\ pc[w] = "idle"
        /\ req[w].op = "del"
        /\ Len(req[w].args) = 2
        /\ req[w].args[1] = req[w].args[2]
        /\ DOMAIN Store = Ids \ Args(w)
        /\ \E k \in DOMAIN Store : IsSet(Store[k].Activated)

FileOk == file.exists /\ file.valid

SameMapping(m, l) ==
    /\ DOMAIN m = DOMAIN l
    /\ \A k \in DOMAIN m :
        /\ m[k].Path = l[k].Path
        /\ m[k].Created.wall = l[k].Created.wall
        /\ m[k].Activated.wall = l[k].Activated.wall
        /\ IsSet(m[k].Activated) <=> IsSet(l[k].Activated)

C16_NoAutomaticCleanup ==
    [][/\ \A w \in Workers :
            (\/ DistCheck(w) \/ DistActivate(w) \/ DistServe(w)
             \/ \E id \in Ids : DistLoad(w, id) \/ Show(w, id))
                => DOMAIN Store \subseteq DOMAIN StoreNext
       /\ ~(DOMAIN Store \subseteq DOMAIN StoreNext)
            => \E w \in Workers : CmdDel(w) \/ CmdPurge(w)
       /\ \A w \in Workers :
            (DistCheck(w) /\ pc'[w] = "idle") =>
                /\ req[w].id \in DOMAIN StoreNext
                /\ StoreNext[req[w].id] = tok[w]
      ]_vars

C16_Witness ==
    \E w \in Workers :
        /\ pc[w] = "idle"
        /\ req[w].op = "dist"
        /\ resp[w].log = <<"EXPIRED">>
        /\ req[w].id \in DOMAIN Store
        /\ IsSet(Store[req[w].id].Activated)
        /\ now - Store[req[w].id].Activated.wall > TOKEN_VAL
        /\ Cardinality(DOMAIN Store) = 2

\* C19: for every activated token in the store, the instant after which its
\* downloads are refused, activated_at + TOKEN_VAL, is no later than its
\* first activation + TOKEN_VAL, so no schedule of downloads postpones it.
C19_BoundedValidity ==
    \A k \in DOMAIN Store :
        IsSet(Store[k].Activated) =>
            Store[k].Activated.wall + TOKEN_VAL <= first_act[k] + TOKEN_VAL

Digits   == {"0", "1", "2", "3", "4", "5", "6", "7", "8", "9"}
LettersAP == {"a", "b", "c", "d", "e", "f", "g", "h", "i", "j", "k", "l",
              "m", "n", "o", "p"}
LettersQZ == {"q", "r", "s", "t", "u", "v", "w", "x", "y", "z"}
Alphabet == Digits \cup LettersAP \cup LettersQZ
\* the number of byte values for which a one-byte read gives character c
ByteCount(c) == Cardinality({ b \in Bytes : GenerateOnetime(<<b>>)[1] = c })
Generated(w) == { r.token : r \in resp[w].out }

\* C15 as claimed: the token has as many characters as bytes were read,
\* every character is a digit or a lowercase letter, and every character of
\* the alphabet is selected by the same number of byte values.
C15_GeneratorUniform ==
    \A w \in Workers :
        (req[w].op = "gen" /\ pc[w] = "idle") =>
            \A t \in Generated(w) :
                /\ Len(t) = Len(req[w].args)
                /\ \A i \in 1..Len(t) : t[i] \in Alphabet
                /\ \A c, d \in Alphabet : ByteCount(c) = ByteCount(d)

\* C15 as amended: the token has as many characters as bytes were read,
\* every character is a digit or a lowercase letter, and of the 256 byte
\* values 11 select each digit, 6 each letter a..p and 5 each letter q..z.
C15_GeneratorBiased ==
    \A w \in Workers :
        (req[w].op = "gen" /\ pc[w] = "idle") =>
            \A t \in Generated(w) :
                /\ Len(t) = Len(req[w].args)
                /\ \A i \in 1..Len(t) : t[i] \in Alphabet
                /\ \A c \in Digits : ByteCount(c) = 11
                /\ \A c \in LettersAP : ByteCount(c) = 6
                /\ \A c \in LettersQZ : ByteCount(c) = 5

C15_Witness ==
    \E w \in Workers :
        /\ req[w].op = "gen"
        /\ pc[w] = "idle"
        /\ Len(req[w].args) = 2
        /\ Generated(w) = { <<"q", "0">> }

\* C11: a download request that loaded its token Fresh performs the
\* Fresh -> Activated write on a record that is still Fresh in the store,
\* so that only one request performs it and the persisted activated_at is
\* the time of the first request to activate.
C11_OneActivation ==
    [][\A w \in Workers :
        ((DistActivate(w) \/ DistSaveWrite(w))
            /\ ~IsSet(tok[w].Activated)
            /\ req[w].id \in DOMAIN Store) =>
                ~IsSet(Store[req[w].id].Activated)]_vars

\* C12: every load made by a download request sees a complete store file
\* and finds every token of the store the server was started on (no
\* download removes a token), also while another request is saving.
C12_AtomicSnapshot ==
    [][\A w \in Workers : \A id \in DOMAIN ServedStore :
        DistLoad(w, id) =>
            /\ file.valid
            /\ id \in DOMAIN LoadFile(file)
            /\ pc'[w] = "d_check"]_vars

\* C17: a save writes the whole mapping the operation loaded: after the
\* save of a download every token other than the requested one is
\* persisted as that request loaded it, whatever the store held in
\* between, and every record a command line keeps or leaves is persisted
\* as that command loaded it.
C17_WholeMapRewrite ==
    [][/\ \A w \in Workers :
            DistActivate(w) =>
                \A k \in Ids \ {req[w].id} :
                    /\ k \in DOMAIN StoreNext <=> k \in DOMAIN ltok[w]
                    /\ k \in DOMAIN ltok[w] => StoreNext[k] = ltok[w][k]
       /\ \A w \in Workers :
            (CmdDel(w) \/ CmdPurge(w)) =>
                \A k \in DOMAIN StoreNext :
                    k \in DOMAIN ltok[w] /\ StoreNext[k] = ltok[w][k]
       /\ \A w \in Workers :
            CmdAdd(w) =>
                \A k \in Ids \ Generated(w)' :
                    /\ k \in DOMAIN StoreNext <=> k \in DOMAIN ltok[w]
                    /\ k \in DOMAIN ltok[w] => StoreNext[k] = ltok[w][k]]_vars

\* a download of token a has saved the store, and token b, which a
\* command line added and printed while that download was running, is not
\* in the store
C17_Witness ==
    /\ pc["w1"] = "d_serve"
    /\ req["w1"].id = "a"
    /\ pc["w2"] = "idle"
    /\ req["w2"].op = "add"
    /\ Generated("w2") = {"b"}
    /\ "b" \notin DOMAIN ltok["w1"]
    /\ file.valid
    /\ "b" \notin DOMAIN Store

\* C18: once a download of a token has been refused as expired, a download
\* request for it that begins afterwards finds the record expired.
C18_ExpiredAbsorbing ==
    [][\A w, u \in Workers : \A id \in Ids :
        (/\ DistLoad(w, id)
         /\ u # w
         /\ pc[u] = "idle"
         /\ req[u].op = "dist"
         /\ req[u].id = id
         /\ resp[u].log = <<"EXPIRED">>
         /\ id \in DOMAIN Store) =>
            DistExpired(Store[id], Now)]_vars

\* C21: a download of a Fresh token whose file no longer exists is answered
\* not-found and leaves the persisted activated_at of the token unset.
C21_ActivationOnlyOnSuccess ==
    [][\A w \in Workers :
        (DistServe(w) /\ ~IsSet(tok[w].Activated) /\ resp'[w].kind = "none") =>
            /\ resp'[w].status = 404
            /\ req[w].id \in DOMAIN StoreNext
            /\ ~IsSet(StoreNext[req[w].id].Activated)]_vars

\* C22: no step changes the path or created_at of a record that stays in
\* the store, and the save of a serving download keeps the ids of the store
\* and every record other than the requested one as it was.
C22_ImmutableFields ==
    [][/\ \A k \in DOMAIN Store \cap DOMAIN StoreNext :
            /\ StoreNext[k].Path = Store[k].Path
            /\ StoreNext[k].Created = Store[k].Created
       /\ \A w \in Workers :
            DistActivate(w) =>
                /\ DOMAIN StoreNext = DOMAIN Store
                /\ \A k \in DOMAIN Store \ {req[w].id} :
                        StoreNext[k] = Store[k]]_vars

\* C23: a purge run at time now removes a record it loaded exactly when a
\* download of that record checked at time now would be refused as expired.
C23_PurgeAgreesWithDownload ==
    [][\A w \in Workers :
        CmdPurge(w) =>
            \A k \in DOMAIN ltok[w] :
                k \notin DOMAIN StoreNext <=> DistExpired(ltok[w][k], Now)]_vars

C23_Witness ==
    \E w \in Workers :
        /\ pc[w] = "idle"
        /\ req[w].op = "purge"
        /\ resp[w].out # {}
        /\ \E k \in DOMAIN Store : ~IsSet(Store[k].Activated)

\* C24: a second purge run at the same instant on the store a purge saved
\* would save that same store, and a purge that loads no expired record
\* saves the mapping it loaded and leaves the document of the file as is.
C24_PurgeIdempotent ==
    [][\A w \in Workers :
        CmdPurge(w) =>
            /\ LTokensPurge(StoreNext, Now) = StoreNext
            /\ SaveFile(LTokensPurge(StoreNext, Now)) = file'
            /\ (\A k \in DOMAIN ltok[w] : ~PurgeExpired(ltok[w][k], Now)) =>
                    /\ StoreNext = ltok[w]
                    /\ (file.exists /\ file.valid) => file' = file]_vars

C24_Witness ==
    \E w \in Workers :
        /\ pc[w] = "idle"
        /\ req[w].op = "purge"
        /\ Cardinality(resp[w].out) = 1
        /\ \E k \in DOMAIN Store :
              /\ IsSet(Store[k].Activated)
              /\ now - Store[k].Activated.wall < TOKEN_VAL

====
